---------------------------- MODULE Spec2Model ----------------------------
(***************************************************************************)
(* Verification model of polyfem::solver::ContactForm                      *)
(* (src/polyfem/solver/forms/ContactForm.cpp), of the forward solve of     *)
(* polyfem::OptimizationProblem (OptimizationProblem.cpp) and of           *)
(* polyfem::mesh::LocalMesh (src/polyfem/mesh/remesh/wild_remesh).         *)
(*                                                                         *)
(* The collision mesh is a one-dimensional mesh of two vertices on a line; *)
(* vertex 1 lies left of vertex 2 in an intersection-free configuration.   *)
(* The single primitive pair is <<1, 2>>.  Positions are integers (Unit    *)
(* positions to the length unit, dhat being 1.5 length units), step        *)
(* fractions are multiples of 1/Den, and arithmetic on them rounds to the  *)
(* nearest representable value (ties to even) as floating point does.      *)
(* The IPC geometry kernel (ipc::...) is modelled by its contract on this  *)
(* mesh; where the contract leaves the result open (CCD estimate, energy   *)
(* gradients of the elastic solver) the model chooses nondeterministically.*)
(***************************************************************************)
EXTENDS Integers, Sequences, FiniteSets, TLC

\* ------------------------------------------------------------------ bounds
MaxFaces == 4             \* faces of the largest triangle mesh
MaxRing == 3              \* n_ring is asked for n in -1..MaxRing
MaxIter == 2              \* optimization iterations counted by iter
MaxDisp == 1              \* displacements of a vertex are 0..MaxDisp length units
Unit == 2                 \* positions per length unit
GridBits == 2             \* step fractions are k / 2^GridBits
CapFactor == 2            \* max_barrier_stiffness / min_barrier_stiffness (100 in IPC)

\* --------------------------------------------------------------- constants
Infinity == 999           \* std::numeric_limits<double>::infinity()

Insts == {"A", "B"}                 \* ContactForm objects of one process
Verts == {1, 2}                     \* vertices of state_.collision_mesh
Rest == <<0, Unit>>                 \* state_.boundary_nodes_pos
Pairs == {p \in Verts \X Verts : p[1] < p[2]}
Disp == {Unit * k : k \in 0..MaxDisp}
Configs == [Verts -> Disp]          \* displacement vectors x
EmptySurface == << >>               \* a default-constructed Eigen::MatrixXd

Pow2(n) == IF n = 0 THEN 1 ELSE IF n = 1 THEN 2 ELSE IF n = 2 THEN 4
           ELSE IF n = 3 THEN 8 ELSE IF n = 4 THEN 16 ELSE 32
Den == Pow2(GridBits)               \* the step fraction 1.0
Steps == 0..Den

Abs(n) == IF n < 0 THEN -n ELSE n
Min(a, b) == IF a < b THEN a ELSE b
Max(a, b) == IF a > b THEN a ELSE b

\* nearest integer to n / d for n >= 0, d > 0, ties to even
RoundDiv(n, d) ==
    LET q == n \div d
        r == n % d
    IN  IF 2 * r < d THEN q
        ELSE IF 2 * r > d THEN q + 1
        ELSE IF q % 2 = 0 THEN q ELSE q + 1

\* ---------------------------------------------------------- geometry kernel
compute_displaced_surface(x) == [v \in Verts |-> Rest[v] + x[v]]

Gap(V, p) == V[p[2]] - V[p[1]]
Distance(V, p) == Abs(Gap(V, p))

\* ipc::has_intersections: the primitives of a pair touch or have crossed
has_intersections(V) == \E p \in Pairs : Gap(V, p) <= 0

\* ipc::construct_constraint_set(mesh, V, dhat, constraint_set, dmin = 0, method)
ConstructFull(V, dhat) == {p \in Pairs : Distance(V, p) < dhat}

\* ipc::construct_constraint_set(candidates, mesh, V, dhat, constraint_set)
ConstructFromCandidates(cand, V, dhat) == {p \in cand : Distance(V, p) < dhat}

\* gap between the boxes swept by the two vertices of p while moving V0 -> V1
SweptGap(V0, V1, p) ==
    LET lo(v) == Min(V0[v], V1[v])
        hi(v) == Max(V0[v], V1[v])
    IN  Max(lo(p[2]) - hi(p[1]), lo(p[1]) - hi(p[2]))

\* no inflation at all
InflationRadiusZero(dhat) == <<0, 199>>

\* inflation radius of line_search_begin, as the fraction <<num, den>>
InflationRadius(dhat) == <<100 * dhat, 199>>

\* ipc::construct_collision_candidates: pairs whose swept boxes, each
\* inflated by the radius r, overlap
construct_collision_candidates(V0, V1, r) ==
    {p \in Pairs : SweptGap(V0, V1, p) * r[2] <= 2 * r[1]}

\* (V1 - V0) * t + V0, rounded to the position grid
Interpolate(V0, V1, t) ==
    [v \in Verts |-> RoundDiv(V0[v] * Den + (V1[v] - V0[v]) * t, Den)]

\* (V - V0).lpNorm<Eigen::Infinity>()
LinfNorm(V, V0) ==
    LET ds == {Abs(V[v] - V0[v]) : v \in Verts}
    IN  CHOOSE m \in ds : \A d \in ds : d <= m

\* max_step / 2.0 with the result dropped
HalveStuck(t) == t

\* max_step /= 2.0 on the step grid; the smallest positive step halves to 0
Halve(t) == RoundDiv(t, 2)

\* the primitives of p touch somewhere on the straight path V0 -> V1
ContactOnPath(V0, V1, p) ==
    \/ Gap(V0, p) <= 0
    \/ Gap(V1, p) <= 0

\* ipc::compute_collision_free_stepsize over the pairs ps: a step-size in
\* [0, 1]; 1 when no pair of ps comes into contact, an estimate of the time
\* of impact otherwise (conservative or not, depending on the backend)
CollisionFreeSteps(ps, V0, V1) ==
    IF \A p \in ps : ~ContactOnPath(V0, V1, p) THEN {Den} ELSE Steps

\* ipc::compute_minimum_distance over a constraint set
compute_minimum_distance(V, cs) ==
    IF cs = {} THEN Infinity
    ELSE LET ds == {Distance(V, p) : p \in cs}
         IN  CHOOSE m \in ds : \A d \in ds : m <= d

\* barrier kernel and its derivatives (stand-ins with the support of the
\* IPC barrier: zero from dhat on)
Barrier(d, dhat) == IF d < dhat THEN (dhat - d) * (dhat - d) ELSE 0
BarrierGrad(d, dhat) == IF d < dhat THEN 0 - 2 * (dhat - d) ELSE 0
BarrierHess(d, dhat) == IF d < dhat THEN 2 ELSE 0

RECURSIVE SumOver(_, _)
SumOver(S, f) ==
    IF S = {} THEN 0
    ELSE LET e == CHOOSE e \in S : TRUE
         IN  f[e] + SumOver(S \ {e}, f)

compute_barrier_potential(V, cs, dhat) ==
    SumOver(cs, [p \in Pairs |-> Barrier(Distance(V, p), dhat)])

\* gradient on the surface vertices, expanded by to_full_dof
compute_barrier_potential_gradient(V, cs, dhat) ==
    [v \in Verts |->
        SumOver({p \in cs : v \in {p[1], p[2]}},
                [p \in Pairs |->
                    LET s == IF Gap(V, p) >= 0 THEN 1 ELSE 0 - 1
                        g == BarrierGrad(Distance(V, p), dhat)
                    IN  IF v = p[2] THEN s * g ELSE 0 - s * g])]

compute_barrier_potential_hessian(V, cs, dhat) ==
    SumOver(cs, [p \in Pairs |-> BarrierHess(Distance(V, p), dhat)])

\* ipc::initial_barrier_stiffness: clamps kappa to [kmin, CapFactor * kmin];
\* kappa is 1 when the barrier gradient vanishes
initial_barrier_stiffness(kmin, kappa, gradBarrier) ==
    LET cap == CapFactor * kmin
        k == IF \A v \in Verts : gradBarrier[v] = 0 THEN 1 ELSE kappa
    IN  [stiffness |-> Min(cap, Max(kmin, k)), max |-> cap]

\* dhat_epsilon of ipc::update_barrier_stiffness: distances of at most one
\* length unit count as close
DhatEpsilon == Unit + 1

\* the rule halving the stiffness when the distance grows
update_barrier_stiffness_relaxing(prev, curr, maxK, k) ==
    IF prev < DhatEpsilon /\ curr < DhatEpsilon /\ curr < prev
    THEN Min(maxK, 2 * k)
    ELSE IF curr > prev THEN k \div 2 ELSE k

\* the rule doubling also when the distance has not changed
update_barrier_stiffness_nonstrict(prev, curr, maxK, k) ==
    IF prev < DhatEpsilon /\ curr < DhatEpsilon /\ curr <= prev
    THEN Min(maxK, 2 * k) ELSE k

\* ipc::update_barrier_stiffness
update_barrier_stiffness(prev, curr, maxK, k) ==
    IF prev < DhatEpsilon /\ curr < DhatEpsilon /\ curr < prev
    THEN Min(maxK, 2 * k) ELSE k

\* ------------------------------------------------------------------- state
VARIABLES
    ndebug,                    \* the build defines NDEBUG
    cached_displaced_surface,  \* function-local static of update_constraint_set
    cache_owner,               \* history: the object whose call stored it
    constructed,               \* the objects that exist
    dhat_,
    use_adaptive_barrier_stiffness_,
    is_time_dependent_,
    broad_phase_method_,
    ccd_tolerance_,
    constraint_set_,
    candidates_,
    use_cached_candidates_,
    barrier_stiffness_,
    max_barrier_stiffness_,
    prev_distance_,
    last,                      \* the last call: operation, object, outcome
    pc,                        \* position inside a stepped max_step_size call
    V0, V1,                    \* locals of the stepped max_step_size call
    max_step,
    V_toi

\* polyfem::OptimizationProblem and the State it drives
VARIABLES
    opt_params,                \* the problem: time dependence, solve_log_level, save_freq
    ambient,                   \* history: log level and output_dir before the first call
    current_log_level,         \* state.current_log_level
    output_dir,                \* state.output_dir
    cur_x,
    iter,
    save_iter,
    opt_pc,                    \* position inside solution_changed / solve_pde
    opt_call,                  \* the call in progress or last finished, with its trace
    cur_log,                   \* locals of solve_pde
    saved_output_dir

optimization == <<opt_params, ambient, current_log_level, output_dir, cur_x,
                  iter, save_iter, opt_pc, opt_call, cur_log, saved_output_dir>>

fields == <<constraint_set_, candidates_, use_cached_candidates_,
            barrier_stiffness_, max_barrier_stiffness_, prev_distance_>>
config == <<constructed, dhat_, use_adaptive_barrier_stiffness_,
            is_time_dependent_, broad_phase_method_, ccd_tolerance_>>
locals == <<pc, V0, V1, max_step, V_toi>>
cache == <<cached_displaced_surface, cache_owner>>
\* polyfem::mesh::LocalMesh::n_ring on a WildRemeshing2D mesh
VARIABLES
    mesh, ring_call, center, ring_n, include_global_boundary, triangles,
    new_triangles, visited_vertices, visited_faces, ring_i, ring_pc, local_mesh
remesh == <<mesh, ring_call, center, ring_n, include_global_boundary, triangles,
            new_triangles, visited_vertices, visited_faces, ring_i, ring_pc,
            local_mesh>>

vars == <<ndebug, cache, config, fields, last, locals, optimization, remesh>>

BroadPhaseMethods == {"HASH_GRID", "SWEEP_AND_TINIEST_QUEUE_GPU"}
Indeterminate == 0 - 999            \* stands for a double that was never written
IndeterminateDoubles == {0, 5}      \* what reading such a double may give
ReadDouble(d) == IF d = Indeterminate THEN IndeterminateDoubles ELSE {d}
DhatValues == {(3 * Unit) \div 2}  \* 1.5 length units
BadDhatValues == {0}
MinStiffnessValues == {1}           \* min_barrier_stiffness of the scene
KappaValues == {0 - 5, 300}     \* -grad_barrier.grad_energy / |grad_barrier|^2

NoSurface == [v \in Verts |-> 0]
\* op: the method; inst: the object; ucs: what update_constraint_set did in
\* the call ("none" when it was not called) and the surface it was given;
\* status: "ok", "error" (exception), "abort" (failed assertion), "running";
\* ret: the value returned (arguments for calls that return nothing)
Call(op, i, ucs, surface, status, ret) ==
    [op |-> op, inst |-> i, ucs |-> ucs, surface |-> surface,
     status |-> status, ret |-> ret]

\* in-class initialiser of use_cached_candidates_ (ContactForm.hpp)
DefaultUseCachedCandidates == FALSE

Running == last.status # "abort" /\ pc = "idle"

InitContactForm ==
    /\ ndebug \in BOOLEAN
    /\ cached_displaced_surface = EmptySurface
    /\ cache_owner = "nobody"
    /\ constructed = [i \in Insts |-> FALSE]
    /\ dhat_ = [i \in Insts |-> 0]
    /\ use_adaptive_barrier_stiffness_ = [i \in Insts |-> FALSE]
    /\ is_time_dependent_ = [i \in Insts |-> FALSE]
    /\ broad_phase_method_ = [i \in Insts |-> "HASH_GRID"]
    /\ ccd_tolerance_ = [i \in Insts |-> 0]
    /\ constraint_set_ = [i \in Insts |-> {}]
    /\ candidates_ = [i \in Insts |-> {}]
    /\ use_cached_candidates_ = [i \in Insts |-> DefaultUseCachedCandidates]
    /\ barrier_stiffness_ = [i \in Insts |-> Indeterminate]
    /\ max_barrier_stiffness_ = [i \in Insts |-> Indeterminate]
    /\ prev_distance_ = [i \in Insts |-> 0]
    /\ last = Call("start", "A", "none", NoSurface, "ok", 0)
    /\ pc = "idle"
    /\ V0 = NoSurface /\ V1 = NoSurface /\ V_toi = NoSurface
    /\ max_step = 0

\* ----------------------------------------------------- OptimizationProblem
LogLevels == 0..2                   \* spdlog::level::level_enum
XValues == {<<0>>, <<1>>, <<0, 0>>} \* parameter vectors x
AmbientDir == <<"output", 0>>       \* state.output_dir as the caller set it
IterDir(k) == <<"iter_", k>>        \* "iter_" + std::to_string(iter)

\* op: the outermost call; x: its argument; trace: the calls it has made, in
\* order; status: "ok", "error" (an exception left the call), "running"
OptCall(op, x, trace, status) ==
    [op |-> op, x |-> x, trace |-> trace, status |-> status]

\* the state of an OptimizationProblem on which nothing has been called
OptimizationIdle(params, level) ==
    /\ opt_params = params
    /\ ambient = [level |-> level, dir |-> AmbientDir]
    /\ current_log_level = level
    /\ output_dir = AmbientDir
    /\ cur_x = << >>
    /\ iter = 0
    /\ save_iter \in {0 - 1, 0}
    /\ opt_pc = "idle"
    /\ opt_call = OptCall("none", << >>, << >>, "ok")
    /\ cur_log = 0
    /\ saved_output_dir = AmbientDir

\* --------------------------------------------------------------- LocalMesh
\* wmtk::TriMesh by its contract: a triangle strip, face k on the vertices
\* k-1, k, k+1 in counter-clockwise order; a mesh is a set of face ids
FaceIds == 1..MaxFaces
Meshes == SUBSET FaceIds \ {{}}
RingValues == (0 - 1)..MaxRing
GarbageInts == {0 - 1, 0}           \* what a read past the end of a matrix may give

NoLocalMesh == [status |-> "none"]

\* m.oriented_tri_vertices(t), as global vertex ids
oriented_tri_vertices(f) ==
    IF f % 2 = 1 THEN <<f - 1, f, f + 1>> ELSE <<f - 1, f + 1, f>>

FaceVertices(f) == {oriented_tri_vertices(f)[k] : k \in 1..3}
MeshVertices(m) == UNION {FaceVertices(f) : f \in m}

\* The recursive operators below bind their argument once per step
\* (x \in {argument}), so that each step evaluates it a single time.

\* the ascending sequence of a finite set of integers
RECURSIVE SortedSeq(_)
SortedSeq(S) ==
    CHOOSE r \in {IF T = {} THEN << >>
                  ELSE CHOOSE q \in {<<lo>> \o SortedSeq(T \ {lo}) :
                                       lo \in {x \in T : \A y \in T : x <= y}} : TRUE :
                  T \in {S}} : TRUE

RECURSIVE Flatten(_)
Flatten(ss) ==
    CHOOSE r \in {IF s = << >> THEN << >> ELSE Head(s) \o Flatten(Tail(s)) :
                     s \in {ss}} : TRUE

Range(q) == {q[k] : k \in 1..Len(q)}

\* m.get_one_ring_tris_for_vertex(v): every face incident to v, once
get_one_ring_tris_for_vertex(m, v) ==
    SortedSeq({f \in m : v \in FaceVertices(f)})

\* m.tuple_from_edge(fid, ei): e.vid(m) and e.switch_vertex(m).vid(m)
tuple_from_edge(f, ei) ==
    <<oriented_tri_vertices(f)[((ei + 1) % 3) + 1],
      oriented_tri_vertices(f)[((ei + 2) % 3) + 1]>>

\* e.switch_face(m): the faces on the other side of edge e of face f
switch_face(m, f, e) == {g \in m \ {f} : Range(e) \subseteq FaceVertices(g)}

\* m.boundary_edges(): the edges of the mesh with a face on one side only
boundary_edges(m) ==
    Flatten([k \in 1..(3 * Len(SortedSeq(m))) |->
        LET f == SortedSeq(m)[((k - 1) \div 3) + 1]
            e == tuple_from_edge(f, (k - 1) % 3)
        IN  IF switch_face(m, f, e) = {} THEN <<e>> ELSE << >>])

\* igl::boundary_facets(F, E): the edges of F that belong to one row of F only
boundary_facets(F) ==
    Flatten([k \in 1..(3 * Len(F)) |->
        LET fi == ((k - 1) \div 3) + 1
            ei == (k - 1) % 3
            e == <<F[fi][((ei + 1) % 3) + 1], F[fi][((ei + 2) % 3) + 1]>>
        IN  IF \E gi \in 1..Len(F) :
                   gi # fi /\ Range(e) \subseteq Range(F[gi])
            THEN << >> ELSE <<e>>])

\* LocalMesh::num_vertices(): the number of vertices of the local mesh
num_vertices(g2l) == Cardinality(DOMAIN g2l)

\* lines 25, 69: m_global_to_local[vi] = m_global_to_local.size(); the right
\* operand of the assignment is evaluated first
NextLocalIndex(g2l) == Cardinality(DOMAIN g2l)

\* the assignment of line 25 without the find of line 24
InsertVertexUnchecked(g2l, vi) ==
    IF vi \in DOMAIN g2l THEN [g2l EXCEPT ![vi] = NextLocalIndex(g2l)]
    ELSE g2l @@ (vi :> NextLocalIndex(g2l))

\* lines 24-25, 68-69: a vertex gets a local index when first met
InsertVertex(g2l, vi) ==
    IF vi \in DOMAIN g2l THEN g2l ELSE g2l @@ (vi :> NextLocalIndex(g2l))

RECURSIVE InsertVertices(_, _)
InsertVertices(g2l, vs) ==
    IF vs = << >> THEN g2l
    ELSE CHOOSE r \in {InsertVertices(InsertVertex(g, Head(vs)), Tail(vs)) :
                           g \in {g2l}} : TRUE

\* lines 147-152: std::sort, std::unique, erase
remove_duplicate_fixed_vertices(fixed) == SortedSeq(Range(fixed))

\* lines 154-162; the assert of line 159, the write past the end without it
init_local_to_global(g2l) ==
    IF \E g \in DOMAIN g2l : g2l[g] >= Cardinality(DOMAIN g2l)
    THEN [status |-> "abort"]
    ELSE [status |-> "ok",
          m_local_to_global |->
              [l \in 0..(Cardinality(DOMAIN g2l) - 1) |->
                  IF \E g \in DOMAIN g2l : g2l[g] = l
                  THEN CHOOSE g \in DOMAIN g2l : g2l[g] = l
                  ELSE 0 - 1]]

\* LocalMesh::LocalMesh, lines 7-99, on the faces triangle_tuples of mesh m,
\* given the vertex map of the triangles (local_g2l), m.boundary_edges() and
\* the vertex map with the vertices of those edges added (all_g2l).
\* Line 85 reads m_boundary_edges(i, i): column i does not exist for i >= 2,
\* where Eigen's bounds assertion ends the program, and without assertions
\* the read gives the values garbage or ends the program (crash).
LocalMesh_fill(m, triangle_tuples, include, garbage, crash, local_g2l, global_boundary_edges, all_g2l) ==
    LET \* lines 14-30
        m_triangles == [fi \in 1..Len(triangle_tuples) |->
                          [i \in 1..3 |->
                              local_g2l[oriented_tri_vertices(triangle_tuples[fi])[i]]]]
        global_triangle_ids == Range(triangle_tuples)
        \* line 32
        m_num_local_vertices == num_vertices(local_g2l)
        \* lines 34-47
        patch_fixed ==
            Flatten([k \in 1..(3 * Len(triangle_tuples)) |->
                LET f == triangle_tuples[((k - 1) \div 3) + 1]
                    e == tuple_from_edge(f, (k - 1) % 3)
                IN  IF switch_face(m, f, e) \ global_triangle_ids # {}
                    THEN <<local_g2l[e[1]], local_g2l[e[2]]>> ELSE << >>])
        \* lines 53-76
        global_edges == [ei \in 1..Len(global_boundary_edges) |->
                           <<all_g2l[global_boundary_edges[ei][1]],
                             all_g2l[global_boundary_edges[ei][2]]>>]
        global_fixed ==
            Flatten([ei \in 1..Len(global_boundary_edges) |->
                IF Range(global_boundary_edges[ei]) \subseteq DOMAIN local_g2l
                THEN << >> ELSE global_edges[ei]])
        \* lines 80-90
        patch_edges == boundary_facets(m_triangles)
        out_of_bounds == Len(patch_edges) > 2
        patch_read ==
            Flatten([k \in 1..(2 * Min(Len(patch_edges), 2)) |->
                LET i == ((k - 1) \div 2) + 1 IN <<patch_edges[i][i]>>])
            \o (IF out_of_bounds THEN SortedSeq(garbage) ELSE << >>)
        m_global_to_local == IF include THEN all_g2l ELSE local_g2l
        m_boundary_edges == IF include THEN global_edges ELSE patch_edges
        pushed == patch_fixed \o (IF include THEN global_fixed ELSE patch_read)
        l2g == init_local_to_global(m_global_to_local)
    IN  IF ~include /\ out_of_bounds /\ (~ndebug \/ crash)
        THEN [status |-> "abort", out_of_bounds |-> TRUE]
        ELSE IF l2g.status = "abort"
        THEN [status |-> "abort", out_of_bounds |-> FALSE]
        ELSE [status |-> "ok",
              out_of_bounds |-> ~include /\ out_of_bounds,
              m_triangles |-> m_triangles,
              m_global_to_local |-> m_global_to_local,
              m_num_local_vertices |-> m_num_local_vertices,
              m_boundary_edges |-> m_boundary_edges,
              \* line 92
              m_fixed_vertices |-> remove_duplicate_fixed_vertices(pushed),
              \* line 98
              m_local_to_global |-> l2g.m_local_to_global]

\* lines 14-30: m_global_to_local after the loop over the triangles
LocalVertices(triangle_tuples) ==
    InsertVertices([v \in {} |-> 0],
                   Flatten([fi \in 1..Len(triangle_tuples) |->
                       oriented_tri_vertices(triangle_tuples[fi])]))

LocalMesh_LocalMesh(m, triangle_tuples, include, garbage, crash) ==
    CHOOSE r \in
        {CHOOSE q \in
            {LocalMesh_fill(m, triangle_tuples, include, garbage, crash,
                            local_g2l, global_boundary_edges, all_g2l) :
                 all_g2l \in {InsertVertices(local_g2l,
                                  Flatten(global_boundary_edges))}} : TRUE :
             local_g2l \in {LocalVertices(triangle_tuples)},
             global_boundary_edges \in {boundary_edges(m)}} : TRUE

RemeshIdle(m) ==
    /\ mesh = m
    /\ ring_call = "none"
    /\ center = 0
    /\ ring_n = 0
    /\ include_global_boundary = FALSE
    /\ triangles = << >>
    /\ new_triangles = << >>
    /\ visited_vertices = {}
    /\ visited_faces = {}
    /\ ring_i = 0
    /\ ring_pc = "idle"
    /\ local_mesh = NoLocalMesh

Init ==
    /\ InitContactForm
    /\ RemeshIdle(FaceIds)
    /\ OptimizationIdle([time_dependent |-> FALSE, solve_log_level |-> 0,
                         save_freq |-> 1], 0)
    /\ save_iter = 0 - 1

\* ---------------------------------------------------------- ContactForm()
\* The constructor.  Assertions abort the process in builds without NDEBUG;
\* the fixed-stiffness branch reads barrier_stiffness_ before any write.
ConstructorOutcomesNoThrow(dhat, ccd_tolerance, adaptive) ==
    IF ~ndebug /\ (dhat <= 0 \/ ccd_tolerance <= 0) THEN {"abort"}
    ELSE IF adaptive THEN {"ok"}
    ELSE IF ~ndebug THEN {"abort", "ok"}
    ELSE {"ok"}

ConstructorOutcomes(dhat, ccd_tolerance, adaptive) ==
    IF ~ndebug /\ (dhat <= 0 \/ ccd_tolerance <= 0) THEN {"abort"}
    ELSE IF adaptive THEN {"ok"}
    ELSE IF ~ndebug THEN {"abort", "error"}
    ELSE {"error"}

Construct(i, dhat, adaptive, td, bp, ccd_tolerance) ==
    /\ Running
    /\ ~constructed[i]
    /\ \E out \in ConstructorOutcomes(dhat, ccd_tolerance, adaptive) :
        /\ last' = Call("ContactForm", i, "none", NoSurface, out,
                         [dhat |-> dhat, adaptive |-> adaptive,
                          ccd_tolerance |-> ccd_tolerance])
        /\ IF out = "ok"
           THEN /\ constructed' = [constructed EXCEPT ![i] = TRUE]
                /\ dhat_' = [dhat_ EXCEPT ![i] = dhat]
                /\ use_adaptive_barrier_stiffness_' =
                       [use_adaptive_barrier_stiffness_ EXCEPT ![i] = adaptive]
                /\ is_time_dependent_' = [is_time_dependent_ EXCEPT ![i] = td]
                /\ broad_phase_method_' = [broad_phase_method_ EXCEPT ![i] = bp]
                /\ ccd_tolerance_' = [ccd_tolerance_ EXCEPT ![i] = ccd_tolerance]
                /\ barrier_stiffness_' = [barrier_stiffness_ EXCEPT ![i] = 1]
                /\ prev_distance_' = [prev_distance_ EXCEPT ![i] = 0 - 1]
                /\ constraint_set_' = [constraint_set_ EXCEPT ![i] = {}]
                /\ candidates_' = [candidates_ EXCEPT ![i] = {}]
                /\ use_cached_candidates_' = [use_cached_candidates_ EXCEPT
                                                  ![i] = DefaultUseCachedCandidates]
                /\ max_barrier_stiffness_' =
                       [max_barrier_stiffness_ EXCEPT ![i] = Indeterminate]
           ELSE UNCHANGED <<config, fields>>
    /\ UNCHANGED <<ndebug, optimization, remesh, cache, locals>>

\* ---------------------------------------------------- update_constraint_set
\* The outcome of update_constraint_set(displaced_surface) on object i:
\* the new constraint set, the new cached surface and what the call did.
\* update_constraint_set without line 115
update_constraint_set_nostore(i, displaced_surface) ==
    IF /\ Len(cached_displaced_surface) = Len(displaced_surface)
       /\ cached_displaced_surface = displaced_surface
    THEN [cs |-> constraint_set_[i], cache |-> cached_displaced_surface,
          ucs |-> "skipped", surface |-> displaced_surface]
    ELSE IF use_cached_candidates_[i]
    THEN [cs |-> ConstructFromCandidates(candidates_[i], displaced_surface, dhat_[i]),
          cache |-> cached_displaced_surface, ucs |-> "candidates",
          surface |-> displaced_surface]
    ELSE [cs |-> ConstructFull(displaced_surface, dhat_[i]),
          cache |-> cached_displaced_surface, ucs |-> "full",
          surface |-> displaced_surface]

\* update_constraint_set without the candidate branch of lines 108-110
update_constraint_set_fullmode(i, displaced_surface) ==
    IF /\ Len(cached_displaced_surface) = Len(displaced_surface)
       /\ cached_displaced_surface = displaced_surface
    THEN [cs |-> constraint_set_[i], cache |-> cached_displaced_surface,
          ucs |-> "skipped", surface |-> displaced_surface]
    ELSE [cs |-> ConstructFull(displaced_surface, dhat_[i]),
          cache |-> displaced_surface, ucs |-> "full",
          surface |-> displaced_surface]

update_constraint_set(i, displaced_surface) ==
    IF /\ Len(cached_displaced_surface) = Len(displaced_surface)
       /\ cached_displaced_surface = displaced_surface
    THEN [cs |-> constraint_set_[i], cache |-> cached_displaced_surface,
          ucs |-> "skipped", surface |-> displaced_surface]
    ELSE IF use_cached_candidates_[i]
    THEN [cs |-> ConstructFromCandidates(candidates_[i], displaced_surface, dhat_[i]),
          cache |-> displaced_surface, ucs |-> "candidates",
          surface |-> displaced_surface]
    ELSE [cs |-> ConstructFull(displaced_surface, dhat_[i]),
          cache |-> displaced_surface, ucs |-> "full",
          surface |-> displaced_surface]

\* history: the object whose call stored the cached surface
Owner(i, u) == IF u.ucs = "skipped" THEN cache_owner ELSE i

solution_changed(i, new_x) ==
    /\ Running
    /\ constructed[i]
    /\ LET u == update_constraint_set(i, compute_displaced_surface(new_x))
       IN  /\ constraint_set_' = [constraint_set_ EXCEPT ![i] = u.cs]
           /\ cached_displaced_surface' = u.cache
           /\ cache_owner' = Owner(i, u)
           /\ last' = Call("solution_changed", i, u.ucs, u.surface, "ok", 0)
    /\ UNCHANGED <<ndebug, optimization, remesh, config, candidates_,
                   use_cached_candidates_,
                   barrier_stiffness_, max_barrier_stiffness_, prev_distance_,
                   locals>>

\* ----------------------------------------------- initialize_barrier_stiffness
\* kmin and kappa stand for what the elastic solver, the body form and the
\* scene contribute (grad_energy, avg_mass, bbox diagonal).
\* initialize_barrier_stiffness storing kappa without the clamp
initialize_barrier_stiffness_unclamped(i, x, kmin, kappa) ==
    LET displaced_surface == compute_displaced_surface(x)
        u == update_constraint_set(i, displaced_surface)
    IN  [cs |-> u.cs, cache |-> u.cache, ucs |-> u.ucs, surface |-> u.surface,
         stiffness |-> kappa, max |-> CapFactor * kmin]

\* initialize_barrier_stiffness never lowering the stiffness it finds
initialize_barrier_stiffness_raising(i, x, kmin, kappa) ==
    LET displaced_surface == compute_displaced_surface(x)
        u == update_constraint_set(i, displaced_surface)
        grad_barrier == compute_barrier_potential_gradient(
                            displaced_surface, u.cs, dhat_[i])
        r == initial_barrier_stiffness(kmin, kappa, grad_barrier)
    IN  [cs |-> u.cs, cache |-> u.cache, ucs |-> u.ucs, surface |-> u.surface,
         stiffness |-> Max(barrier_stiffness_[i], r.stiffness), max |-> r.max]

initialize_barrier_stiffness(i, x, kmin, kappa) ==
    LET displaced_surface == compute_displaced_surface(x)
        u == update_constraint_set(i, displaced_surface)
        grad_barrier == compute_barrier_potential_gradient(
                            displaced_surface, u.cs, dhat_[i])
        r == initial_barrier_stiffness(kmin, kappa, grad_barrier)
    IN  [cs |-> u.cs, cache |-> u.cache, ucs |-> u.ucs, surface |-> u.surface,
         stiffness |-> r.stiffness, max |-> r.max]

Initialize(op, i, x) ==
    \E kmin \in MinStiffnessValues, kappa \in KappaValues :
        LET r == initialize_barrier_stiffness(i, x, kmin, kappa)
        IN  /\ constraint_set_' = [constraint_set_ EXCEPT ![i] = r.cs]
            /\ cached_displaced_surface' = r.cache
            /\ cache_owner' = Owner(i, r)
            /\ barrier_stiffness_' = [barrier_stiffness_ EXCEPT ![i] = r.stiffness]
            /\ max_barrier_stiffness_' = [max_barrier_stiffness_ EXCEPT ![i] = r.max]
            /\ last' = Call(op, i, r.ucs, r.surface, "ok", 0)

init(i, x) ==
    /\ Running
    /\ constructed[i]
    /\ IF use_adaptive_barrier_stiffness_[i]
       THEN Initialize("init", i, x)
       ELSE /\ last' = Call("init", i, "none", NoSurface, "ok", 0)
            /\ UNCHANGED <<constraint_set_, cache,
                           barrier_stiffness_, max_barrier_stiffness_>>
    /\ UNCHANGED <<ndebug, optimization, remesh, config, candidates_,
                   use_cached_candidates_,
                   prev_distance_, locals>>

update_quantities(i, x) ==
    /\ Running
    /\ constructed[i]
    /\ IF use_adaptive_barrier_stiffness_[i]
       THEN Initialize("update_quantities", i, x)
       ELSE /\ last' = Call("update_quantities", i, "none", NoSurface, "ok", 0)
            /\ UNCHANGED <<constraint_set_, cache,
                           barrier_stiffness_, max_barrier_stiffness_>>
    /\ UNCHANGED <<ndebug, optimization, remesh, config, candidates_,
                   use_cached_candidates_,
                   prev_distance_, locals>>

\* ------------------------------------------------------------- evaluators
\* value refreshing the constraint set for x first
value_refreshing(i, x) ==
    /\ Running
    /\ constructed[i]
    /\ LET u == update_constraint_set(i, compute_displaced_surface(x))
       IN  /\ constraint_set_' = [constraint_set_ EXCEPT ![i] = u.cs]
           /\ cached_displaced_surface' = u.cache
           /\ cache_owner' = Owner(i, u)
           /\ last' = Call("value", i, "none", NoSurface, "ok",
                           barrier_stiffness_[i] * compute_barrier_potential(
                               compute_displaced_surface(x), u.cs, dhat_[i]))
    /\ UNCHANGED <<ndebug, optimization, remesh, config, candidates_,
                   use_cached_candidates_,
                   barrier_stiffness_, max_barrier_stiffness_, prev_distance_,
                   locals>>

value(i, x) ==
    /\ Running
    /\ constructed[i]
    /\ last' = Call("value", i, "none", NoSurface, "ok",
                    barrier_stiffness_[i] * compute_barrier_potential(
                        compute_displaced_surface(x), constraint_set_[i], dhat_[i]))
    /\ UNCHANGED <<ndebug, optimization, remesh, cache, config, fields, locals>>

first_derivative(i, x) ==
    /\ Running
    /\ constructed[i]
    /\ LET g == compute_barrier_potential_gradient(
                    compute_displaced_surface(x), constraint_set_[i], dhat_[i])
       IN  last' = Call("first_derivative", i, "none", NoSurface, "ok",
                        [v \in Verts |-> barrier_stiffness_[i] * g[v]])
    /\ UNCHANGED <<ndebug, optimization, remesh, cache, config, fields, locals>>

second_derivative(i, x) ==
    /\ Running
    /\ constructed[i]
    /\ last' = Call("second_derivative", i, "none", NoSurface, "ok",
                    barrier_stiffness_[i] * compute_barrier_potential_hessian(
                        compute_displaced_surface(x), constraint_set_[i], dhat_[i]))
    /\ UNCHANGED <<ndebug, optimization, remesh, cache, config, fields, locals>>

\* ---------------------------------------------------------- max_step_size
\* the candidates used whatever the broad-phase method
CcdPairsAnyMethod(i) ==
    IF use_cached_candidates_[i] THEN candidates_[i] ELSE Pairs

\* the pairs the CCD query of max_step_size looks at
CcdPairs(i) ==
    IF /\ use_cached_candidates_[i]
       /\ broad_phase_method_[i] # "SWEEP_AND_TINIEST_QUEUE_GPU"
    THEN candidates_[i] ELSE Pairs

\* the loop testing the wrong surface / the negated test
LoopConditionAtStart(V) == has_intersections(V0)
LoopConditionInverted(V) == ~has_intersections(V)

\* the condition of the failsafe loop
LoopCondition(V) == has_intersections(V)

Failed == 0 - 1     \* stands for log_and_throw_error

\* max_step_size statement by statement: lines 144-160; while the call
\* runs, last.ret holds the pairs its CCD query was given
max_step_size_enter(i, x0, x1) ==
    /\ Running
    /\ constructed[i]
    /\ V0' = compute_displaced_surface(x0)
    /\ V1' = compute_displaced_surface(x1)
    /\ \E t \in CollisionFreeSteps(CcdPairs(i), V0', V1') :
        /\ max_step' = t
        /\ V_toi' = IF ndebug THEN NoSurface ELSE Interpolate(V0', V1', t)
    /\ pc' = IF ndebug THEN "return" ELSE "while"
    /\ last' = Call("max_step_size", i, "none", NoSurface, "running",
                    CcdPairs(i))
    /\ UNCHANGED <<ndebug, optimization, remesh, cache, config, fields>>

\* one test of the loop condition and, if it holds, one pass of the body
max_step_size_while ==
    /\ pc = "while"
    /\ IF LoopCondition(V_toi)
       THEN LET halved == Halve(max_step)
                Linf == LinfNorm(V_toi, V0)
            IN  IF halved <= 0 \/ Linf = 0
                THEN /\ pc' = "idle"
                     /\ last' = [last EXCEPT !.status = "error", !.ret = Failed]
                     /\ V0' = NoSurface /\ V1' = NoSurface /\ V_toi' = NoSurface
                     /\ max_step' = 0
                ELSE /\ pc' = "while"
                     /\ max_step' = halved
                     /\ V_toi' = Interpolate(V0, V1, halved)
                     /\ UNCHANGED <<last, V0, V1>>
       ELSE /\ pc' = "return"
            /\ UNCHANGED <<last, V0, V1, max_step, V_toi>>
    /\ UNCHANGED <<ndebug, optimization, remesh, cache, config, fields>>

\* the locals die with the call
max_step_size_return ==
    /\ pc = "return"
    /\ pc' = "idle"
    /\ last' = [last EXCEPT !.status = "ok", !.ret = max_step]
    /\ V0' = NoSurface /\ V1' = NoSurface /\ V_toi' = NoSurface
    /\ max_step' = 0
    /\ UNCHANGED <<ndebug, optimization, remesh, cache, config, fields>>

\* ------------------------------------------------------------ line search
line_search_begin(i, x0, x1) ==
    /\ Running
    /\ constructed[i]
    /\ candidates_' = [candidates_ EXCEPT ![i] =
           construct_collision_candidates(compute_displaced_surface(x0),
                                          compute_displaced_surface(x1),
                                          InflationRadius(dhat_[i]))]
    /\ use_cached_candidates_' = [use_cached_candidates_ EXCEPT ![i] = TRUE]
    /\ last' = Call("line_search_begin", i, "none", NoSurface, "ok", <<x0, x1>>)
    /\ UNCHANGED <<ndebug, optimization, remesh, cache, config, constraint_set_,
                   barrier_stiffness_, max_barrier_stiffness_, prev_distance_,
                   locals>>

\* line_search_end that only clears the list
line_search_end_noreset(i) ==
    /\ Running
    /\ constructed[i]
    /\ candidates_' = [candidates_ EXCEPT ![i] = {}]
    /\ last' = Call("line_search_end", i, "none", NoSurface, "ok", 0)
    /\ UNCHANGED <<ndebug, optimization, remesh, cache, config, constraint_set_,
                   use_cached_candidates_,
                   barrier_stiffness_, max_barrier_stiffness_, prev_distance_,
                   locals>>

line_search_end(i) ==
    /\ Running
    /\ constructed[i]
    /\ candidates_' = [candidates_ EXCEPT ![i] = {}]
    /\ use_cached_candidates_' = [use_cached_candidates_ EXCEPT ![i] = FALSE]
    /\ last' = Call("line_search_end", i, "none", NoSurface, "ok", 0)
    /\ UNCHANGED <<ndebug, optimization, remesh, cache, config, constraint_set_,
                   barrier_stiffness_, max_barrier_stiffness_, prev_distance_,
                   locals>>

\* --------------------------------------------------------------- post_step
\* the guard without its test of prev_distance_
HasHistoryAlways(i) == TRUE

\* the guard letting the sentinel -1 pass
HasHistoryFromSentinel(i) == prev_distance_[i] >= 0 - 1

\* prev_distance_ >= 0: a previous post_step has recorded a distance
HasHistory(i) == prev_distance_[i] >= 0

post_step(i, x) ==
    /\ Running
    /\ constructed[i]
    /\ LET displaced_surface == compute_displaced_surface(x)
           curr_distance == compute_minimum_distance(displaced_surface,
                                                     constraint_set_[i])
       IN  /\ IF HasHistory(i) /\ use_adaptive_barrier_stiffness_[i]
              THEN IF is_time_dependent_[i]
                   THEN /\ \E cap \in ReadDouble(max_barrier_stiffness_[i]) :
                               barrier_stiffness_' =
                                   [barrier_stiffness_ EXCEPT ![i] =
                                       update_barrier_stiffness(
                                           prev_distance_[i], curr_distance,
                                           cap, barrier_stiffness_[i])]
                        /\ last' = Call("post_step", i, "none", NoSurface, "ok",
                               barrier_stiffness_'[i] # barrier_stiffness_[i])
                        /\ UNCHANGED <<constraint_set_, cache,
                                       max_barrier_stiffness_>>
                   ELSE Initialize("post_step", i, x)
              ELSE /\ last' = Call("post_step", i, "none", NoSurface, "ok", FALSE)
                   /\ UNCHANGED <<constraint_set_, cache,
                                  barrier_stiffness_, max_barrier_stiffness_>>
           /\ prev_distance_' = [prev_distance_ EXCEPT ![i] = curr_distance]
    /\ UNCHANGED <<ndebug, optimization, remesh, config, candidates_,
                   use_cached_candidates_, locals>>

\* ----------------------------------------- OptimizationProblem: the calls
contact == <<ndebug, cache, config, fields, last, locals>>

Append1(call, name) == [call EXCEPT !.trace = Append(@, name)]

PreEvent(solve) ==
    IF solve THEN "solution_changed_pre: true" ELSE "solution_changed_pre: false"

\* solution_changed, lines 158-161: the early return
OptimizationProblem_solution_changed(newX) ==
    /\ opt_pc = "idle"
    /\ IF Len(cur_x) = Len(newX) /\ cur_x = newX
       THEN /\ opt_call' = OptCall("solution_changed", newX, << >>, "ok")
            /\ opt_pc' = "idle"
       ELSE /\ opt_call' = OptCall("solution_changed", newX, << >>, "running")
            /\ opt_pc' = "pre"
    /\ UNCHANGED <<contact, remesh, opt_params, ambient, current_log_level, output_dir,
                   cur_x, iter, save_iter, cur_log, saved_output_dir>>

\* the hook of line 163 with its answer ignored
solution_changed_pre_ignored ==
    /\ opt_pc = "pre"
    /\ \E solve \in BOOLEAN : opt_call' = Append1(opt_call, PreEvent(solve))
    /\ opt_pc' = "solve_pde"
    /\ UNCHANGED <<contact, remesh, opt_params, ambient, current_log_level, output_dir,
                   cur_x, iter, save_iter, cur_log, saved_output_dir>>

\* line 163: the hook of the concrete problem decides whether to solve
solution_changed_pre ==
    /\ opt_pc = "pre"
    /\ \E solve \in BOOLEAN :
        /\ opt_call' = Append1(opt_call, PreEvent(solve))
        /\ opt_pc' = IF solve THEN "solve_pde" ELSE "post"
    /\ UNCHANGED <<contact, remesh, opt_params, ambient, current_log_level, output_dir,
                   cur_x, iter, save_iter, cur_log, saved_output_dir>>

\* a caller other than solution_changed runs the forward solve
solve_pde(x) ==
    /\ opt_pc = "idle"
    /\ opt_call' = OptCall("solve_pde", x, << >>, "running")
    /\ opt_pc' = "solve_pde"
    /\ UNCHANGED <<contact, remesh, opt_params, ambient, current_log_level, output_dir,
                   cur_x, iter, save_iter, cur_log, saved_output_dir>>

\* solve_pde, lines 112-128: the overrides of log level and output_dir; the
\* filesystem calls of lines 123-125 may throw
solve_pde_begin ==
    /\ opt_pc = "solve_pde"
    /\ cur_log' = current_log_level
    /\ current_log_level' = opt_params.solve_log_level
    /\ saved_output_dir' = output_dir
    /\ IF opt_params.time_dependent /\ save_iter < iter
       THEN /\ save_iter' = save_iter + 1
            /\ IF save_iter' % opt_params.save_freq = 0
               THEN /\ output_dir' = IterDir(iter)
                    /\ \E fs \in {"ok", "error"} :
                        IF fs = "ok"
                        THEN /\ opt_pc' = "forward"
                             /\ opt_call' = Append1(opt_call, "solve_pde")
                        ELSE /\ opt_pc' = "idle"
                             /\ opt_call' = [Append1(opt_call, "solve_pde")
                                                EXCEPT !.status = "error"]
               ELSE /\ opt_pc' = "forward"
                    /\ opt_call' = Append1(opt_call, "solve_pde")
                    /\ UNCHANGED output_dir
       ELSE /\ opt_pc' = "forward"
            /\ opt_call' = Append1(opt_call, "solve_pde")
            /\ UNCHANGED <<output_dir, save_iter>>
    /\ UNCHANGED <<contact, remesh, opt_params, ambient, cur_x, iter>>

\* lines 130-150: assemble_rhs, assemble_stiffness_mat, solve_problem and the
\* trajectory printing either finish or throw; nothing catches the exception
forward_solve ==
    /\ opt_pc = "forward"
    /\ \E out \in {"ok", "error"} :
        IF out = "ok"
        THEN /\ opt_pc' = "restore"
             /\ UNCHANGED <<opt_call, current_log_level, output_dir>>
        ELSE /\ opt_pc' = "idle"
             /\ opt_call' = [opt_call EXCEPT !.status = "error"]
             /\ UNCHANGED <<current_log_level, output_dir>>
    /\ UNCHANGED <<contact, remesh, opt_params, ambient, cur_x, iter, save_iter,
                   cur_log, saved_output_dir>>

\* lines 152-155: the manual restore, then back to the caller
solve_pde_end ==
    /\ opt_pc = "restore"
    /\ output_dir' = saved_output_dir
    /\ current_log_level' = cur_log
    /\ IF opt_call.op = "solution_changed"
       THEN opt_pc' = "post" /\ UNCHANGED opt_call
       ELSE opt_pc' = "idle" /\ opt_call' = [opt_call EXCEPT !.status = "ok"]
    /\ UNCHANGED <<contact, remesh, opt_params, ambient, cur_x, iter, save_iter,
                   cur_log, saved_output_dir>>

\* line 166: the hook of the concrete problem; whether it stores newX in
\* cur_x is its choice
solution_changed_post ==
    /\ opt_pc = "post"
    /\ opt_call' = [Append1(opt_call, "solution_changed_post")
                       EXCEPT !.status = "ok"]
    /\ opt_pc' = "idle"
    /\ cur_x' \in {cur_x, opt_call.x}
    /\ UNCHANGED <<contact, remesh, opt_params, ambient, current_log_level, output_dir,
                   iter, save_iter, cur_log, saved_output_dir>>

\* the optimizer counts an iteration
next_iteration ==
    /\ opt_pc = "idle"
    /\ iter < MaxIter
    /\ iter' = iter + 1
    /\ UNCHANGED <<contact, remesh, opt_params, ambient, current_log_level, output_dir,
                   cur_x, save_iter, opt_pc, opt_call, cur_log, saved_output_dir>>

\* ------------------------------------------------------ LocalMesh: the calls
\* lines 131-135: a face not yet visited joins the patch
VisitFace(st, t1) ==
    IF t1 \in st.visited_faces THEN st
    ELSE [st EXCEPT !.visited_faces = @ \cup {t1},
                    !.triangles = Append(@, t1),
                    !.new_new_triangles = Append(@, t1)]

\* lines 129-136 for the faces tmp around one vertex
RECURSIVE VisitFaces(_, _)
VisitFaces(st, tmp) ==
    IF tmp = << >> THEN st
    ELSE CHOOSE r \in {VisitFaces(VisitFace(s, Head(tmp)), Tail(tmp)) : s \in {st}} :
             TRUE

\* lines 123-136: a vertex not yet visited brings its one-ring
VisitVertex(m, st, v) ==
    IF v \in st.visited_vertices THEN st
    ELSE VisitFaces([st EXCEPT !.visited_vertices = @ \cup {v}],
                    get_one_ring_tris_for_vertex(m, v))

\* lines 121-137 for the vertices vs of one triangle
RECURSIVE VisitVertices(_, _, _)
VisitVertices(m, st, vs) ==
    IF vs = << >> THEN st
    ELSE CHOOSE r \in {VisitVertices(m, VisitVertex(m, s, Head(vs)), Tail(vs)) :
                           s \in {st}} : TRUE

\* lines 118-138 for the triangles ts added by the previous round
RECURSIVE VisitTriangles(_, _, _)
VisitTriangles(m, st, ts) ==
    IF ts = << >> THEN st
    ELSE CHOOSE r \in {VisitTriangles(m,
                            VisitVertices(m, s, oriented_tri_vertices(Head(ts))),
                            Tail(ts)) : s \in {st}} : TRUE

\* the rows of m_boundary_edges that line 85 reads past column 1
OutOfBoundsRows(triangle_tuples) ==
    Max(0, Len(boundary_facets([fi \in 1..Len(triangle_tuples) |->
                   oriented_tri_vertices(triangle_tuples[fi])])) - 2)

\* the loop condition of line 115 with the bound included
n_ring_continue_inclusive == ring_i <= ring_n

\* line 115: i < n
n_ring_continue == ring_i < ring_n

\* n_ring, lines 101-113 and int i = 1
n_ring(c, n, include) ==
    /\ ring_pc = "idle"
    /\ c \in MeshVertices(mesh)
    /\ ring_call' = "n_ring"
    /\ center' = c
    /\ ring_n' = n
    /\ include_global_boundary' = include
    /\ triangles' = get_one_ring_tris_for_vertex(mesh, c)
    /\ visited_vertices' = {c}
    /\ visited_faces' = Range(get_one_ring_tris_for_vertex(mesh, c))
    /\ new_triangles' = get_one_ring_tris_for_vertex(mesh, c)
    /\ ring_i' = 1
    /\ ring_pc' = "loop"
    /\ UNCHANGED <<contact, optimization, mesh, local_mesh>>

\* one round of the loop, lines 115-142
n_ring_round ==
    /\ ring_pc = "loop"
    /\ n_ring_continue
    /\ \E st \in {VisitTriangles(mesh,
                     [visited_vertices |-> visited_vertices,
                      visited_faces |-> visited_faces,
                      triangles |-> triangles,
                      new_new_triangles |-> << >>],
                     new_triangles)} :
           /\ visited_vertices' = st.visited_vertices
           /\ visited_faces' = st.visited_faces
           /\ triangles' = st.triangles
           /\ new_triangles' = st.new_new_triangles
           /\ IF st.new_new_triangles = << >>
              THEN ring_pc' = "return" /\ UNCHANGED ring_i
              ELSE ring_pc' = "loop" /\ ring_i' = ring_i + 1
    /\ UNCHANGED <<contact, optimization, mesh, ring_call, center, ring_n,
                   include_global_boundary, local_mesh>>

\* line 115: the loop ends on its condition
n_ring_exit ==
    /\ ring_pc = "loop"
    /\ ~n_ring_continue
    /\ ring_pc' = "return"
    /\ UNCHANGED <<contact, optimization, mesh, ring_call, center, ring_n,
                   include_global_boundary, triangles, new_triangles,
                   visited_vertices, visited_faces, ring_i, local_mesh>>

\* line 144: return LocalMesh(m, triangles, include_global_boundary)
n_ring_return ==
    /\ ring_pc = "return"
    /\ \E garbage \in SUBSET GarbageInts \ {{}}, crash \in BOOLEAN :
        /\ Cardinality(garbage) <= Max(1, OutOfBoundsRows(triangles))
        /\ local_mesh' = LocalMesh_LocalMesh(mesh, triangles,
                              include_global_boundary, garbage, crash)
    /\ ring_pc' = "done"
    /\ new_triangles' = << >>
    /\ visited_vertices' = {}
    /\ visited_faces' = {}
    /\ ring_i' = 0
    /\ UNCHANGED <<contact, optimization, mesh, ring_call, center, ring_n,
                   include_global_boundary, triangles>>

\* a caller constructs the local mesh of faces of its own choice
LocalMesh_construct(triangle_tuples, include) ==
    /\ ring_pc = "idle"
    /\ Range(triangle_tuples) \subseteq mesh
    /\ ring_call' = "LocalMesh"
    /\ triangles' = triangle_tuples
    /\ include_global_boundary' = include
    /\ \E garbage \in SUBSET GarbageInts \ {{}}, crash \in BOOLEAN :
        /\ Cardinality(garbage) <= Max(1, OutOfBoundsRows(triangle_tuples))
        /\ local_mesh' = LocalMesh_LocalMesh(mesh, triangle_tuples, include,
                              garbage, crash)
    /\ ring_pc' = "done"
    /\ UNCHANGED <<contact, optimization, center, ring_n, mesh, new_triangles,
                   visited_vertices, visited_faces, ring_i>>

\* ------------------------------------------------------------ specifications
\* One ContactForm object through its solver calls: refreshes, evaluations
\* and line searches.
Next ==
    \/ \E dhat \in DhatValues :
            Construct("A", dhat, TRUE, FALSE, "HASH_GRID", 1)
    \/ \E x \in Configs : solution_changed("A", x)
    \/ \E x \in Configs : init("A", x)
    \/ \E x \in Configs : value("A", x)
    \/ \E x \in Configs : first_derivative("A", x)
    \/ \E x \in Configs : second_derivative("A", x)
    \/ \E x0, x1 \in Configs : line_search_begin("A", x0, x1)
    \/ line_search_end("A")

Spec == Init /\ [][Next]_vars

\* The stiffness controller of one object across accepted steps.
NextStiffness ==
    \/ \E td \in BOOLEAN, dhat \in DhatValues :
            Construct("A", dhat, TRUE, td, "HASH_GRID", 1)
    \/ \E x \in Configs : solution_changed("A", x)
    \/ \E x \in Configs : init("A", x)
    \/ \E x \in Configs : update_quantities("A", x)
    \/ \E x \in Configs : post_step("A", x)

SpecStiffness == Init /\ [][NextStiffness]_vars

\* One object inside and outside a line search, with max_step_size run
\* statement by statement.
NextStep ==
    \/ \E bp \in BroadPhaseMethods, dhat \in DhatValues :
            Construct("A", dhat, TRUE, FALSE, bp, 1)
    \/ \E x \in Configs : solution_changed("A", x)
    \/ \E x \in Configs : value("A", x)
    \/ \E x \in Configs : first_derivative("A", x)
    \/ \E x \in Configs : second_derivative("A", x)
    \/ \E x0, x1 \in Configs : line_search_begin("A", x0, x1)
    \/ line_search_end("A")
    \/ \E x0, x1 \in Configs : max_step_size_enter("A", x0, x1)
    \/ max_step_size_while
    \/ max_step_size_return

SpecStep == Init /\ [][NextStep]_vars

\* Two ContactForm objects of one process, constructed with every argument
\* combination and told of solution changes.
NextCtor ==
    \/ \E i \in Insts, dhat \in DhatValues \cup BadDhatValues,
          adaptive \in BOOLEAN, td \in BOOLEAN, tol \in {0, 1} :
            Construct(i, dhat, adaptive, td, "HASH_GRID", tol)
    \/ \E i \in Insts, x \in Configs : solution_changed(i, x)
    \/ \E i \in Insts, x \in Configs : value(i, x)

SpecCtor == Init /\ [][NextCtor]_vars

\* An optimization problem of any kind driven by its optimizer.
InitOptimization ==
    /\ InitContactForm
    /\ RemeshIdle(FaceIds)
    /\ \E td \in BOOLEAN, lvl \in LogLevels, freq \in 1..2, level \in LogLevels :
        OptimizationIdle([time_dependent |-> td, solve_log_level |-> lvl,
                          save_freq |-> freq], level)

NextOptimization ==
    \/ \E newX \in XValues : OptimizationProblem_solution_changed(newX)
    \/ solution_changed_pre
    \/ \E x \in XValues : solve_pde(x)
    \/ solve_pde_begin
    \/ forward_solve
    \/ solve_pde_end
    \/ solution_changed_post
    \/ next_iteration

SpecOptimization == InitOptimization /\ [][NextOptimization]_vars

\* Local meshes cut out of every mesh of the family.
InitRemesh ==
    /\ InitContactForm
    /\ OptimizationIdle([time_dependent |-> FALSE, solve_log_level |-> 0,
                         save_freq |-> 1], 0)
    /\ save_iter = 0 - 1
    /\ \E m \in Meshes : RemeshIdle(m)

NextRemesh ==
    \/ \E c \in 0..(MaxFaces + 1), n \in RingValues, include \in BOOLEAN :
           n_ring(c, n, include)
    \/ n_ring_round
    \/ n_ring_exit
    \/ n_ring_return
    \/ \E fs \in Meshes, include \in BOOLEAN :
           LocalMesh_construct(SortedSeq(fs), include)

SpecRemesh == InitRemesh /\ [][NextRemesh]_vars

\* the loop of n_ring keeps running once entered
SpecRemeshFair == SpecRemesh /\ WF_vars(n_ring_round \/ n_ring_exit)

\* the loop of max_step_size keeps running once entered
SpecStepFair == SpecStep /\ WF_vars(max_step_size_while)

\* ================================================================== claims
Searched(c) == c.ucs \in {"full", "candidates"}

\* the step is a call that passes update_constraint_set the surface the
\* previous call passed it, on the same object
SameSurfaceTwice ==
    /\ last.ucs # "none" /\ last'.ucs # "none"
    /\ last'.inst = last.inst
    /\ last'.surface = last.surface

\* C1 (as stated): two update_constraint_set calls in a row on one object
\* with value-identical surfaces perform the geometric search exactly once
\* in total, and the second leaves constraint set and cached surface alone.
C1_ExactlyOneSearch ==
    [][SameSurfaceTwice =>
          /\ Searched(last) /\ ~Searched(last')
          /\ constraint_set_' = constraint_set_
          /\ cached_displaced_surface' = cached_displaced_surface]_vars

\* C1 (amended): of two such calls the second never searches and leaves the
\* constraint set and the cached surface unchanged, so the two together
\* search at most once.
C1_SecondCallSkips ==
    [][SameSurfaceTwice =>
          /\ last'.ucs = "skipped"
          /\ constraint_set_' = constraint_set_
          /\ cached_displaced_surface' = cached_displaced_surface]_vars

C1_Witness ==
    /\ last.op = "init" /\ last.inst = "A" /\ last.ucs = "skipped"
    /\ cache_owner = "A"
    /\ constraint_set_["A"] # {}

\* C2: the last-surface cache belongs to one object: a call skips the
\* search only for a surface that the same object stored in the cache.
C2_CachePerInstance ==
    last.ucs = "skipped" => cache_owner = last.inst

C4_StepInHalfOpenInterval ==
    pc = "return" =>
        /\ 0 < max_step /\ max_step <= Den
        /\ (V0 = V1 => max_step = Den)

\* C4 (amended): a normal return gives 0 <= t <= 1; when x0 = x1 and the
\* surface there is free of intersections the call returns, and returns 1.
C4_StepInUnitInterval ==
    [][/\ pc' = "return" =>
            /\ 0 <= max_step' /\ max_step' <= Den
            /\ (V0' = V1' /\ ~has_intersections(V0') => max_step' = Den)
       /\ pc = "while" /\ V0 = V1 /\ ~has_intersections(V0) => pc' = "return"
      ]_vars

C4_Witness ==
    /\ pc = "return" /\ ~ndebug
    /\ V0 = V1 /\ ~has_intersections(V0) /\ max_step = Den

\* C5: the failsafe loop of max_step_size terminates: once entered it is
\* left, by finding an intersection-free surface or by the fatal error.
C5_FailsafeTerminates == (pc = "while") ~> (pc # "while")

C5_Witness ==
    /\ pc = "while" /\ has_intersections(V_toi)
    /\ 0 < max_step /\ max_step <= Den
    /\ ~has_intersections(V0)

\* C6: with the failsafe active, max_step_size never returns a step whose
\* interpolated surface has intersections, and when halving reaches a step
\* <= 0 or a zero displacement norm with intersections left the call throws.
C6_NoIntersectingStep ==
    [][/\ pc' = "return" /\ ~ndebug =>
            ~has_intersections(Interpolate(V0', V1', max_step'))
       /\ /\ pc = "while" /\ has_intersections(V_toi)
          /\ RoundDiv(max_step, 2) <= 0 \/ LinfNorm(V_toi, V0) = 0
          => pc' = "idle" /\ last'.status = "error"
      ]_vars

C6_Witness ==
    /\ pc = "return" /\ ~ndebug
    /\ 0 < max_step /\ max_step < Den
    /\ has_intersections(Interpolate(V0, V1, Den))
    /\ 2 * max_step <= Den
    /\ has_intersections(Interpolate(V0, V1, 2 * max_step))

\* C7: line_search_begin fills candidates_ and sets use_cached_candidates_,
\* line_search_end empties candidates_ and clears the flag, no other call
\* changes the flag, and whenever the flag is false the list is empty.
C7_CandidateLifecycle ==
    [][\A i \in Insts :
        /\ ~use_cached_candidates_[i] => candidates_[i] = {}
        /\ ~use_cached_candidates_'[i] => candidates_'[i] = {}
        /\ IF last'.inst = i /\ last'.op = "line_search_begin"
           THEN /\ use_cached_candidates_'[i]
                /\ candidates_'[i] = construct_collision_candidates(
                       compute_displaced_surface(last'.ret[1]),
                       compute_displaced_surface(last'.ret[2]),
                       <<100 * dhat_[i], 199>>)
           ELSE IF last'.inst = i /\ last'.op = "line_search_end"
           THEN ~use_cached_candidates_'[i] /\ candidates_'[i] = {}
           ELSE /\ use_cached_candidates_'[i] = use_cached_candidates_[i]
                /\ candidates_'[i] = candidates_[i]
      ]_vars

C7_Witness ==
    /\ last.op = "line_search_end" /\ ~use_cached_candidates_["A"]
    /\ candidates_["A"] = {}
    /\ constraint_set_["A"] # {}

\* C8: right after line_search_begin(x0, x1), for every surface strictly
\* between surface(x0) and surface(x1) the narrow phase over candidates_
\* gives the constraint set of the full recomputation with threshold dhat.
C8_CandidatesCoverSegment ==
    last.op = "line_search_begin" =>
        \A t \in 1..(Den - 1) :
            LET V == Interpolate(compute_displaced_surface(last.ret[1]),
                                 compute_displaced_surface(last.ret[2]), t)
            IN  ConstructFromCandidates(candidates_[last.inst], V,
                                        dhat_[last.inst])
                    = ConstructFull(V, dhat_[last.inst])

C8_Witness ==
    /\ last.op = "line_search_begin" /\ last.ret[1] # last.ret[2]
    /\ \E t \in 1..(Den - 1) :
        LET V == Interpolate(compute_displaced_surface(last.ret[1]),
                             compute_displaced_surface(last.ret[2]), t)
        IN  /\ ConstructFull(V, dhat_[last.inst]) # {}
            /\ V # compute_displaced_surface(last.ret[1])
            /\ V # compute_displaced_surface(last.ret[2])

\* C9: value, first_derivative, second_derivative and max_step_size leave
\* the constraint set, the cached surface, the candidate list, the flag, the
\* stiffness and the previous distance unchanged, and the three evaluators
\* return normally whatever configuration they are given.
C9_EvaluatorsReadOnly ==
    [][/\ last'.op \in {"value", "first_derivative", "second_derivative",
                        "max_step_size"}
            => UNCHANGED <<fields, cached_displaced_surface>>
       /\ last'.op \in {"value", "first_derivative", "second_derivative"}
            => last'.status = "ok"
      ]_vars

\* value was asked at a configuration whose surface is not the cached one
C9_Witness ==
    /\ last.op = "value" /\ last.status = "ok"
    /\ constraint_set_["A"] # {}
    /\ Len(cached_displaced_surface) > 0
    /\ last.ret # barrier_stiffness_["A"] * compute_barrier_potential(
                      cached_displaced_surface, constraint_set_["A"], dhat_["A"])

\* C10 (as stated): construction with use_adaptive_barrier_stiffness = false
\* always ends in the "Fixed barrier stiffness not implemented!" error, and
\* with true it succeeds with barrier_stiffness_ = 1, prev_distance_ = -1.
C10_FixedAlwaysThrows ==
    last.op = "ContactForm" =>
        IF last.ret.adaptive
        THEN /\ last.status = "ok"
             /\ barrier_stiffness_[last.inst] = 1
             /\ prev_distance_[last.inst] = 0 - 1
        ELSE last.status = "error"

\* C10 (amended): construction with the flag false never yields an object:
\* it throws that error or, with assertions compiled in, aborts on a failed
\* assertion; with the flag true it yields barrier_stiffness_ = 1 and
\* prev_distance_ = -1 unless an assertion on dhat or ccd_tolerance aborts.
C10_FixedNeverConstructs ==
    /\ \A i \in Insts : constructed[i] => use_adaptive_barrier_stiffness_[i]
    /\ last.op = "ContactForm" =>
        IF last.ret.adaptive
        THEN /\ last.status \in {"ok", "abort"}
             /\ last.status = "abort" =>
                    ~ndebug /\ (last.ret.dhat <= 0 \/ last.ret.ccd_tolerance <= 0)
             /\ last.status = "ok" =>
                    /\ constructed[last.inst]
                    /\ barrier_stiffness_[last.inst] = 1
                    /\ prev_distance_[last.inst] = 0 - 1
        ELSE /\ last.status \in {"error", "abort"}
             /\ ~constructed[last.inst]
             /\ ndebug => last.status = "error"

C10_Witness ==
    /\ last.op = "ContactForm" /\ ~last.ret.adaptive
    /\ last.status = "error" /\ last.ret.dhat > 0
    /\ \E i \in Insts : constructed[i]

\* C11: construction with dhat <= 0 or ccd_tolerance <= 0 is rejected: no
\* constructed object has a non-positive dhat_ or ccd_tolerance_.
C11_NonPositiveRejected ==
    \A i \in Insts : constructed[i] => dhat_[i] > 0 /\ ccd_tolerance_[i] > 0

\* the step is a post_step on an adaptive object of a non-time-dependent
\* problem
NonTimeDependentPostStep ==
    /\ last'.op = "post_step"
    /\ use_adaptive_barrier_stiffness_[last'.inst]
    /\ ~is_time_dependent_[last'.inst]

\* C12 (as stated): in the adaptive regime of a non-time-dependent problem
\* every post_step, the first after construction included, re-runs
\* initialize_barrier_stiffness (and with it update_constraint_set).
C12_EveryPostStepInitializes ==
    [][NonTimeDependentPostStep => last'.ucs # "none"]_vars

\* C12 (amended): such a post_step re-runs initialize_barrier_stiffness at
\* the accepted configuration exactly when an earlier post_step recorded a
\* distance (prev_distance_ >= 0); the first post_step after construction
\* leaves constraint set, cached surface, stiffness and cap as they are.
C12_PostStepInitializesWithHistory ==
    [][NonTimeDependentPostStep =>
        LET i == last'.inst
        IN  IF prev_distance_[i] >= 0
            THEN \E x \in Configs, kmin \in MinStiffnessValues,
                    kappa \in KappaValues :
                    LET r == initialize_barrier_stiffness(i, x, kmin, kappa)
                    IN  /\ last'.ucs = r.ucs /\ last'.surface = r.surface
                        /\ constraint_set_'[i] = r.cs
                        /\ cached_displaced_surface' = r.cache
                        /\ barrier_stiffness_'[i] = r.stiffness
                        /\ max_barrier_stiffness_'[i] = r.max
            ELSE /\ last'.ucs = "none"
                 /\ UNCHANGED <<constraint_set_, cached_displaced_surface,
                                barrier_stiffness_, max_barrier_stiffness_>>
      ]_vars

\* a later post_step of a non-time-dependent problem searched the surface of
\* its configuration anew and clamped the stiffness to the cap
C12_Witness ==
    /\ last.op = "post_step" /\ ~is_time_dependent_["A"]
    /\ last.ucs = "full"
    /\ constraint_set_["A"] # {}
    /\ barrier_stiffness_["A"] = CapFactor

C14_SearchModeFollowsLineSearch ==
    [][\A i \in Insts : last'.inst = i =>
        /\ last'.op = "line_search_begin" => use_cached_candidates_'[i]
        /\ last'.op = "line_search_end" => ~use_cached_candidates_'[i]
        /\ last'.op = "ContactForm" /\ last'.status = "ok"
              => ~use_cached_candidates_'[i]
        /\ last'.op \notin {"line_search_begin", "line_search_end", "ContactForm"}
              => use_cached_candidates_'[i] = use_cached_candidates_[i]
        /\ Searched(last') =>
              IF use_cached_candidates_[i]
              THEN /\ last'.ucs = "candidates"
                   /\ constraint_set_'[i] = ConstructFromCandidates(
                          candidates_[i], last'.surface, dhat_[i])
              ELSE /\ last'.ucs = "full"
                   /\ constraint_set_'[i] = ConstructFull(last'.surface, dhat_[i])
      ]_vars

\* a search inside a line search missed a pair closer than dhat because the
\* pair is not among the candidates
C14_Witness ==
    /\ last.op = "solution_changed" /\ last.ucs = "candidates"
    /\ use_cached_candidates_["A"] /\ candidates_["A"] = {}
    /\ constraint_set_["A"] = {}
    /\ ConstructFull(last.surface, dhat_["A"]) # {}

\* C15: with no line search active, solution_changed(x) leaves stored the
\* constraint set of a full search on surface(x), which is then the cached
\* surface; a set found among the candidates of a finished line search does
\* not outlive it, also when surface(x) is the surface last evaluated there.
C15_FullRecomputationAfterLineSearch ==
    [][/\ last'.op = "solution_changed"
       /\ ~use_cached_candidates_[last'.inst]
       =>
        /\ cached_displaced_surface' = last'.surface
        /\ constraint_set_'[last'.inst] =
               ConstructFull(cached_displaced_surface', dhat_[last'.inst])
      ]_vars

\* C16: after every solution_changed(x) the cached surface is surface(x) and
\* the stored constraint set is the one computed for it, for every sequence
\* of surfaces and also for the first call on a newly constructed object
\* (no line search is open in SpecCtor, so computed means the full search).
C16_RebuiltForEverySurface ==
    [][last'.op = "solution_changed" =>
        /\ cached_displaced_surface' = last'.surface
        /\ constraint_set_'[last'.inst] =
               ConstructFull(last'.surface, dhat_[last'.inst])
      ]_vars

\* C17: the CCD query of max_step_size is given candidates_ if and only if
\* use_cached_candidates_ holds and the broad-phase method is not
\* SWEEP_AND_TINIEST_QUEUE_GPU; otherwise it is a fresh query over the whole
\* mesh; the step it starts from is an answer of that query.
C17_CcdUsesCandidates ==
    [][pc = "idle" /\ pc' # "idle" =>
        LET i == last'.inst
            cached == /\ use_cached_candidates_[i]
                      /\ broad_phase_method_[i] # "SWEEP_AND_TINIEST_QUEUE_GPU"
        IN  /\ last'.op = "max_step_size"
            /\ last'.ret = IF cached THEN candidates_[i] ELSE Pairs
            /\ max_step' \in CollisionFreeSteps(last'.ret, V0', V1')
      ]_vars

\* inside a line search whose candidate list is empty, the GPU method made
\* max_step_size query the whole mesh, and the query found a contact
C17_Witness ==
    /\ pc # "idle" /\ last.op = "max_step_size"
    /\ use_cached_candidates_["A"] /\ candidates_["A"] = {}
    /\ broad_phase_method_["A"] = "SWEEP_AND_TINIEST_QUEUE_GPU"
    /\ last.ret = Pairs
    /\ max_step < Den

\* C18: the constructor sets prev_distance_ to -1; a post_step(iter, x) sets
\* it to the minimum distance it computed, over the constraint set it found,
\* on surface(x); no other call changes it; and a post_step that finds
\* prev_distance_ = -1 leaves barrier_stiffness_ unchanged, time-dependent
\* or not.
C18_PreviousDistanceLifecycle ==
    [][\A i \in Insts : last'.inst = i =>
        IF last'.op = "ContactForm"
        THEN last'.status = "ok" => prev_distance_'[i] = 0 - 1
        ELSE IF last'.op = "post_step"
        THEN /\ \E x \in Configs :
                  /\ last'.ucs # "none" =>
                        last'.surface = compute_displaced_surface(x)
                  /\ prev_distance_'[i] = compute_minimum_distance(
                        compute_displaced_surface(x), constraint_set_[i])
             /\ prev_distance_'[i] >= 0
             /\ prev_distance_[i] = 0 - 1 =>
                    barrier_stiffness_'[i] = barrier_stiffness_[i]
        ELSE prev_distance_'[i] = prev_distance_[i]
      ]_vars

\* the first post_step after construction and init, on a surface in contact
\* range, recorded a distance and left the stiffness at its initial value
C18_Witness ==
    /\ last.op = "post_step" /\ last.ucs = "none"
    /\ ~is_time_dependent_["A"]
    /\ constraint_set_["A"] # {}
    /\ prev_distance_["A"] > 0 /\ prev_distance_["A"] < Infinity
    /\ max_barrier_stiffness_["A"] = CapFactor
    /\ barrier_stiffness_["A"] = 1

\* the step is a post_step on an adaptive object of a time-dependent problem
TimeDependentPostStep ==
    /\ last'.op = "post_step"
    /\ use_adaptive_barrier_stiffness_[last'.inst]
    /\ is_time_dependent_[last'.inst]

\* C19: in the time-dependent adaptive regime a post_step whose minimum
\* distance equals the previous one leaves barrier_stiffness_ as it is, and
\* a post_step reports "updated barrier stiffness" if and only if it changed
\* barrier_stiffness_.
C19_ReportIffChanged ==
    [][TimeDependentPostStep =>
        LET i == last'.inst
        IN  /\ prev_distance_'[i] = prev_distance_[i] =>
                    barrier_stiffness_'[i] = barrier_stiffness_[i]
            /\ (last'.ret = TRUE) <=>
                    (barrier_stiffness_'[i] # barrier_stiffness_[i])
      ]_vars

\* a post_step in contact reported the change of an initialised stiffness
C19_Witness ==
    /\ is_time_dependent_["A"]
    /\ last.op = "post_step" /\ last.ret = TRUE
    /\ prev_distance_["A"] = 0
    /\ max_barrier_stiffness_["A"] # Indeterminate
    /\ barrier_stiffness_["A"] > 1

\* C20 (as stated): in the time-dependent adaptive regime no post_step
\* lowers barrier_stiffness_, and one whose minimum distance is below the
\* previous one leaves it at most max_barrier_stiffness_.
C20_StiffnessNeverDecreases ==
    [][TimeDependentPostStep =>
        LET i == last'.inst
        IN  /\ barrier_stiffness_'[i] >= barrier_stiffness_[i]
            /\ prev_distance_[i] >= 0 /\ prev_distance_'[i] < prev_distance_[i]
                  => \A cap \in ReadDouble(max_barrier_stiffness_[i]) :
                        barrier_stiffness_'[i] <= cap
      ]_vars

\* C20 (amended): the same for an object whose cap has been written by
\* initialize_barrier_stiffness.
C20_StiffnessNeverDecreasesOnceInitialized ==
    [][TimeDependentPostStep
       /\ max_barrier_stiffness_[last'.inst] # Indeterminate =>
        LET i == last'.inst
        IN  /\ barrier_stiffness_'[i] >= barrier_stiffness_[i]
            /\ barrier_stiffness_'[i] <= max_barrier_stiffness_[i]
            /\ max_barrier_stiffness_'[i] = max_barrier_stiffness_[i]
      ]_vars

\* the distance dropped to contact and post_step doubled the stiffness the
\* initialization had left at the minimum
C20_Witness ==
    /\ is_time_dependent_["A"]
    /\ last.op = "post_step" /\ last.ret = TRUE
    /\ prev_distance_["A"] = 0
    /\ max_barrier_stiffness_["A"] = CapFactor
    /\ barrier_stiffness_["A"] = 2
\* -------------------------------------------------------------- C21
\* C21: whenever no call of the optimization problem is in progress, the log
\* level and state.output_dir are the ones the caller had before the first
\* solve_pde, whichever way the calls so far ended.
C21_AmbientRestored ==
    opt_pc = "idle" =>
        /\ current_log_level = ambient.level
        /\ output_dir = ambient.dir

\* -------------------------------------------------------------- C22
SolutionChangedTraces ==
    {<<PreEvent(FALSE), "solution_changed_post">>,
     <<PreEvent(TRUE), "solve_pde", "solution_changed_post">>}

SolutionChangedEarlyReturn ==
    (opt_pc = "idle" /\ opt_pc' = "idle" /\ iter' = iter) =>
        /\ opt_call'.op = "solution_changed"
        /\ opt_call'.x = cur_x
        /\ opt_call'.trace = << >>
        /\ UNCHANGED <<current_log_level, output_dir, cur_x, save_iter>>

SolutionChangedEnters ==
    (opt_pc = "idle" /\ opt_pc' = "pre") => opt_call'.x # cur_x

Constructed == ring_pc = "done" /\ local_mesh.status = "ok"

PatchVertices == MeshVertices(Range(triangles))

\* C23: in every constructed LocalMesh, m_global_to_local is injective onto
\* 0..num_vertices-1, m_local_to_global is its inverse with no entry left at
\* -1, the vertices of the input triangles have the local indices below
\* m_num_local_vertices and the vertices that only global boundary edges
\* brought in have the indices from m_num_local_vertices on.
C23_IndexMapsInverse ==
    Constructed =>
        LET g2l == local_mesh.m_global_to_local
            l2g == local_mesh.m_local_to_global
            n == num_vertices(g2l)
        IN  /\ {g2l[g] : g \in DOMAIN g2l} = 0..(n - 1)
            /\ DOMAIN l2g = 0..(n - 1)
            /\ \A g \in DOMAIN g2l : l2g[g2l[g]] = g
            /\ \A l \in DOMAIN l2g : l2g[l] # 0 - 1
            /\ PatchVertices \subseteq DOMAIN g2l
            /\ \A g \in PatchVertices : g2l[g] < local_mesh.m_num_local_vertices
            /\ \A g \in DOMAIN g2l \ PatchVertices :
                   g2l[g] >= local_mesh.m_num_local_vertices

C23_Witness ==
    /\ Constructed
    /\ include_global_boundary
    /\ Len(triangles) >= 2
    /\ DOMAIN local_mesh.m_global_to_local # PatchVertices

\* -------------------------------------------------------------- C24
StrictlyIncreasing(q) == \A k \in 1..(Len(q) - 1) : q[k] < q[k + 1]

\* C24: every construction of a LocalMesh reads m_boundary_edges inside its
\* bounds and ends with m_fixed_vertices strictly increasing and, when
\* include_global_boundary is false, holding both endpoints of every row of
\* m_boundary_edges.
C24_FixedVerticesCoverBoundary ==
    (ring_pc = "done") =>
        /\ ~local_mesh.out_of_bounds
        /\ local_mesh.status = "ok"
        /\ StrictlyIncreasing(local_mesh.m_fixed_vertices)
        /\ ~include_global_boundary =>
               \A i \in 1..Len(local_mesh.m_boundary_edges), j \in 1..2 :
                   local_mesh.m_boundary_edges[i][j]
                       \in Range(local_mesh.m_fixed_vertices)

\* -------------------------------------------------------------- C25
Neighbours(m, v) == UNION {FaceVertices(f) : f \in {g \in m : v \in FaceVertices(g)}}

\* the vertices within k edge hops of c
RECURSIVE Within(_, _, _)
Within(m, c, k) ==
    IF k <= 0 THEN {c}
    ELSE Within(m, c, k - 1)
             \cup UNION {Neighbours(m, v) : v \in Within(m, c, k - 1)}

\* C25: for every n the loop of n_ring ends and the constructor call of line
\* 144 is reached, and the triangles handed to the constructor hold no face
\* twice, hold the whole one-ring of center and, for n >= 1, are exactly the
\* faces with a vertex within n-1 edge hops of center.
C25_NRingPatch ==
    /\ []((ring_call = "n_ring" /\ ring_pc \in {"return", "done"}) =>
            /\ Cardinality(Range(triangles)) = Len(triangles)
            /\ Range(get_one_ring_tris_for_vertex(mesh, center))
                   \subseteq Range(triangles)
            /\ ring_n >= 1 =>
                   Range(triangles) =
                       {f \in mesh : FaceVertices(f)
                           \cap Within(mesh, center, ring_n - 1) # {}})
    /\ ((ring_pc = "loop") ~> (ring_pc = "return"))

C25_Witness ==
    /\ ring_call = "n_ring"
    /\ ring_pc = "done"
    /\ ring_n = 2
    /\ Range(triangles) # mesh
    /\ Len(triangles) > Len(get_one_ring_tris_for_vertex(mesh, center))

=============================================================================
